---- MODULE Spec2Model ----
(***************************************************************************)
(* The OpenCode agent-file routes of Archon                                *)
(* (src/python/src/server/api_routes/opencode_api.py): the in-memory       *)
(* registry MOCK_AGENT_FILES, the five request handlers and the deferred   *)
(* repository scan, run by a single-threaded cooperative event loop.       *)
(***************************************************************************)
EXTENDS Integers, Sequences, FiniteSets

\* Number of state-changing requests (successful PUTs and POST connects) in a run.
MaxRequests == 2

(***************************************************************************)
(* JSON values of the metadata mapping: a string, a list of strings or a   *)
(* nested mapping from strings to strings.                                 *)
(***************************************************************************)
NoFields == [k \in {} |-> ""]

Str(s) == [kind |-> "str", str |-> s, items |-> <<>>, fields |-> NoFields]

List(xs) == [kind |-> "list", str |-> "", items |-> xs, fields |-> NoFields]

Map(f) == [kind |-> "map", str |-> "", items |-> <<>>, fields |-> f]

NoMetadata == [k \in {} |-> Str("")]

\* The module-level list literal; each content is abridged to its first line.
SEED_AGENT_FILES ==
    << [ id |-> "docs-agent",
         name |-> "docs.md",
         path |-> ".opencode/agent/docs.md",
         type |-> "agent",
         description |-> "ALWAYS use this when writing docs",
         content |-> "You are an expert technical documentation writer",
         metadata |-> [ provider |-> Str("anthropic"),
                        model |-> Str("claude-3-sonnet-20240229"),
                        permissions |-> List(<<"read", "write">>) ] ],
       [ id |-> "git-committer",
         name |-> "git-committer.md",
         path |-> ".opencode/agent/git-committer.md",
         type |-> "subagent",
         description |-> "Use this agent when you are asked to commit and push code changes",
         content |-> "You commit and push to git",
         metadata |-> [ provider |-> Str("openai"),
                        model |-> Str("gpt-4"),
                        permissions |-> List(<<"git">>) ] ],
       [ id |-> "commit-command",
         name |-> "commit.md",
         path |-> ".opencode/command/commit.md",
         type |-> "command",
         description |-> "Git commit and push command",
         content |-> "commit and push",
         metadata |-> [ provider |-> Str("openai"),
                        model |-> Str("gpt-3.5-turbo"),
                        permissions |-> List(<<"git", "shell">>) ] ] >>

(***************************************************************************)
(* Request inputs.                                                         *)
(***************************************************************************)
AgentIds == {"docs-agent", "git-committer", "missing-id"}

Configurations ==
    { NoMetadata,
      [ provider |-> Str("azure") ],
      [ newKey |-> Str("v") ],
      [ limits |-> Map([ a |-> "1" ]) ],
      [ limits |-> Map([ b |-> "2" ]) ],
      [ id |-> Str("hacked"), type |-> Str("command") ] }

ConnectBodies ==
    { [ repository_url |-> "https://example.com/repo.git" ],
      [ repository_url |-> "https://example.com/repo.git", branch |-> "develop",
        access_token |-> "secret" ],
      [ branch |-> "develop" ] }

(***************************************************************************)
(* Outcomes of a handler body and the responses FastAPI makes of them.     *)
(***************************************************************************)
Return(value) == [kind |-> "return", status_code |-> 200, detail |-> <<>>, value |-> value]

HTTPException(status_code, detail) ==
    [kind |-> "HTTPException", status_code |-> status_code, detail |-> detail, value |-> <<>>]

\* except Exception as e: raise HTTPException(status_code=500, detail=f"...{str(e)}")
ExceptException(outcome, prefix) ==
    IF outcome.kind = "return" THEN outcome
    ELSE HTTPException(500, <<prefix>> \o outcome.detail)

\* Variant: the "except HTTPException: raise" clause is missing.
ExceptClausesNoReraise(outcome, prefix) ==
    IF outcome.kind = "return" THEN outcome
    ELSE HTTPException(500, <<prefix>> \o outcome.detail)

\* except HTTPException: raise, then except Exception as e: raise HTTPException(500, ...)
ExceptClauses(outcome, prefix) ==
    CASE outcome.kind = "return" -> outcome
      [] outcome.kind = "HTTPException" -> outcome
      [] OTHER -> HTTPException(500, <<prefix>> \o outcome.detail)

Respond(op, request, outcome) ==
    [ op |-> op,
      request |-> request,
      status |-> outcome.status_code,
      body |-> IF outcome.kind = "return" THEN outcome.value
               ELSE << [detail |-> outcome.detail] >> ]

(***************************************************************************)
(* GET /agents and GET /agents/{agent_id}                                  *)
(***************************************************************************)
get_agent_files(files) ==
    ExceptException(Return(files), "Failed to fetch agent files: ")

\* next((a for a in MOCK_AGENT_FILES if a["id"] == agent_id), None): 0 stands for None
FirstIndex(files, agent_id) ==
    IF \E i \in 1..Len(files) : files[i].id = agent_id
      THEN CHOOSE i \in 1..Len(files) :
             /\ files[i].id = agent_id
             /\ \A j \in 1..(i - 1) : files[j].id # agent_id
      ELSE 0

get_agent_file(files, agent_id) ==
    LET i == FirstIndex(files, agent_id)
        body == IF i = 0 THEN HTTPException(404, <<"Agent file not found">>)
                ELSE Return(<<files[i]>>)
    IN  ExceptClauses(body, "Failed to fetch agent file: ")

(***************************************************************************)
(* PUT /agents/{agent_id}                                                  *)
(***************************************************************************)
\* Variant: nested mappings are merged key by key instead of replaced.
MergeRecursive(old, new) ==
    [ k \in (DOMAIN old) \cup (DOMAIN new) |->
        IF k \notin DOMAIN new THEN old[k]
        ELSE IF k \in DOMAIN old /\ old[k].kind = "map" /\ new[k].kind = "map"
          THEN Map([ j \in (DOMAIN old[k].fields) \cup (DOMAIN new[k].fields) |->
                       IF j \in DOMAIN new[k].fields THEN new[k].fields[j]
                       ELSE old[k].fields[j] ])
          ELSE new[k] ]

\* {**old, **new}
Merge(old, new) ==
    [ k \in (DOMAIN old) \cup (DOMAIN new) |->
        IF k \in DOMAIN new THEN new[k] ELSE old[k] ]

\* Variant: the configuration is spread over the record itself as well.
UpdatedAgentSpreadTopLevel(agent, configuration) ==
    [ agent EXCEPT
        !.id = IF "id" \in DOMAIN configuration THEN configuration["id"].str ELSE @,
        !.type = IF "type" \in DOMAIN configuration THEN configuration["type"].str ELSE @,
        !.metadata = Merge(@, configuration) ]

\* {**MOCK_AGENT_FILES[agent_index], "metadata": {...}}
UpdatedAgent(agent, configuration) ==
    [ agent EXCEPT !.metadata = Merge(@, configuration) ]

\* Variant: the updated record is appended instead of replacing the old one.
StoreAppend(files, agent_index, updated_agent) ==
    Append(files, updated_agent)

\* Variant: the updated record is returned but never written back.
StoreNothing(files, agent_index, updated_agent) ==
    files

\* MOCK_AGENT_FILES[agent_index] = updated_agent
Store(files, agent_index, updated_agent) ==
    [ files EXCEPT ![agent_index] = updated_agent ]

\* Variant: the coroutine awaits between building the record and storing it.
UpdateAwaitsBeforeStore == TRUE

\* The handler body holds no await: the event loop never leaves it half done.
UpdateSuspends == FALSE

(***************************************************************************)
(* POST /repositories/connect and GET /repositories                        *)
(***************************************************************************)
\* The pydantic request model: repository_url is required, branch defaults.
RepositoryConnectModel(body) ==
    [ valid |-> "repository_url" \in DOMAIN body,
      repository_url |-> IF "repository_url" \in DOMAIN body
                           THEN body["repository_url"] ELSE "",
      branch |-> IF "branch" \in DOMAIN body THEN body["branch"] ELSE "main",
      access_token |-> IF "access_token" \in DOMAIN body
                         THEN <<body["access_token"]>> ELSE <<>> ]

\* Variant: the handler awaits the scan itself, so it is over when the handler returns.
AwaitScan(tasks, repository_url, branch) ==
    Append(tasks, [ repository_url |-> repository_url, branch |-> branch, pc |-> "done" ])

\* background_tasks.add_task(simulate_repository_scan, url, branch)
AddTask(tasks, repository_url, branch) ==
    Append(tasks, [ repository_url |-> repository_url, branch |-> branch,
                    pc |-> "scheduled" ])

connect_repository(request) ==
    ExceptException(
        Return(<< [ success |-> TRUE,
                    message |-> "Repository connection initiated",
                    repository_url |-> request.repository_url,
                    branch |-> request.branch,
                    status |-> "connecting" ] >>),
        "Failed to connect repository: ")

\* Variant: only the records of type "agent" are counted.
AgentCountAgentsOnly(files) ==
    Cardinality({ i \in 1..Len(files) : files[i].type = "agent" })

\* len(MOCK_AGENT_FILES)
AgentCount(files) == Len(files)

get_connected_repositories(files) ==
    ExceptException(
        Return(<< [ id |-> "opencode-main",
                    url |-> "https://github.com/sst/opencode",
                    branch |-> "main",
                    last_sync |-> "2025-09-16T18:00:00Z",
                    agent_count |-> AgentCount(files),
                    status |-> "connected" ] >>),
        "Failed to fetch repositories: ")

(***************************************************************************)
(* The deferred scan.  Its try block sleeps and prints two lines; where it *)
(* raises, the except clause prints one line instead of the rest.          *)
(***************************************************************************)
FailPoints == {"none", "sleep", "print2"}

Line(text, task, count) ==
    [ text |-> text, repository_url |-> task.repository_url, branch |-> task.branch,
      count |-> count ]

\* Variant: the except clause swallows the failure without printing it.
ScanOutputSilentFailure(task, files, failAt) ==
    CASE failAt = "none" ->
           << Line("Successfully scanned repository", task, 0),
              Line("Found agent files", task, Len(files)) >>
      [] failAt = "print2" ->
           << Line("Successfully scanned repository", task, 0) >>
      [] OTHER -> << >>

\* What the task prints from the end of the sleep on.
ScanOutput(task, files, failAt) ==
    CASE failAt = "none" ->
           << Line("Successfully scanned repository", task, 0),
              Line("Found agent files", task, Len(files)) >>
      [] failAt = "print2" ->
           << Line("Successfully scanned repository", task, 0),
              Line("Failed to scan repository", task, 0) >>
      [] OTHER ->
           << Line("Failed to scan repository", task, 0) >>

(***************************************************************************)
(* State.                                                                  *)
(***************************************************************************)
VARIABLES
    MOCK_AGENT_FILES,   \* the registry
    inflight,           \* PUT coroutines that built updated_agent and have not stored it
    running,            \* rid of the coroutine that holds the event loop, 0 when it is free
    scans,              \* the scan tasks handed to add_task, in connect order
    stdout,             \* the lines printed so far
    resp,               \* the response delivered last
    nreq,               \* state-changing requests accepted so far
    acked,              \* history: indices in scans whose connect was acknowledged
    applied,            \* history: per id, the configurations of the PUTs answered 200
    lastReturned        \* history: per id, the record the last PUT answered 200 returned

vars == << MOCK_AGENT_FILES, inflight, running, scans, stdout, resp, nreq,
           acked, applied, lastReturned >>

SeedIds == { SEED_AGENT_FILES[i].id : i \in 1..Len(SEED_AGENT_FILES) }

NoRequest == [k \in {} |-> ""]

Init ==
    /\ MOCK_AGENT_FILES = SEED_AGENT_FILES
    /\ inflight = {}
    /\ running = 0
    /\ scans = << >>
    /\ stdout = << >>
    /\ resp = [ op |-> "none", request |-> NoRequest, status |-> 0, body |-> << >> ]
    /\ nreq = 0
    /\ acked = {}
    /\ applied = [ id \in SeedIds |-> << >> ]
    /\ lastReturned = [ id \in {} |-> SEED_AGENT_FILES[1] ]

(***************************************************************************)
(* Request handlers.  A handler starts only when the event loop is free.   *)
(***************************************************************************)
ListAgents ==
    /\ running = 0
    /\ resp' = Respond("list", NoRequest, get_agent_files(MOCK_AGENT_FILES))
    /\ UNCHANGED << MOCK_AGENT_FILES, inflight, running, scans, stdout, nreq,
                    acked, applied, lastReturned >>

GetAgent(agent_id) ==
    /\ running = 0
    /\ resp' = Respond("get", [ agent_id |-> agent_id ],
                       get_agent_file(MOCK_AGENT_FILES, agent_id))
    /\ UNCHANGED << MOCK_AGENT_FILES, inflight, running, scans, stdout, nreq,
                    acked, applied, lastReturned >>

\* Lines 188-190: no record has the id.
UpdateNotFound(agent_id, configuration) ==
    /\ running = 0
    /\ FirstIndex(MOCK_AGENT_FILES, agent_id) = 0
    /\ resp' = Respond("update",
                       [ agent_id |-> agent_id ],
                       ExceptClauses(HTTPException(404, <<"Agent file not found">>),
                                     "Failed to update agent configuration: "))
    /\ UNCHANGED << MOCK_AGENT_FILES, inflight, running, scans, stdout, nreq,
                    acked, applied, lastReturned >>

\* Lines 188-199: find the index and build updated_agent from the record read now.
UpdateBuild(agent_id, configuration) ==
    /\ running = 0
    /\ nreq < MaxRequests
    /\ FirstIndex(MOCK_AGENT_FILES, agent_id) # 0
    /\ LET agent_index == FirstIndex(MOCK_AGENT_FILES, agent_id)
           frame == [ rid |-> nreq + 1,
                      agent_id |-> agent_id,
                      configuration |-> configuration,
                      agent_index |-> agent_index,
                      updated_agent |-> UpdatedAgent(MOCK_AGENT_FILES[agent_index],
                                                     configuration) ]
       IN  /\ inflight' = inflight \cup {frame}
           /\ running' = IF UpdateSuspends THEN 0 ELSE frame.rid
    /\ nreq' = nreq + 1
    /\ UNCHANGED << MOCK_AGENT_FILES, scans, stdout, resp, acked, applied, lastReturned >>

\* Lines 201-208: store updated_agent and return it.
UpdateStore(frame) ==
    /\ frame \in inflight
    /\ running \in {0, frame.rid}
    /\ MOCK_AGENT_FILES' = Store(MOCK_AGENT_FILES, frame.agent_index, frame.updated_agent)
    /\ resp' = Respond("update",
                       [ agent_id |-> frame.agent_id ],
                       ExceptClauses(Return(<<frame.updated_agent>>),
                                     "Failed to update agent configuration: "))
    /\ inflight' = inflight \ {frame}
    /\ running' = 0
    /\ applied' = [ applied EXCEPT ![frame.agent_id] = Append(@, frame.configuration) ]
    /\ lastReturned' =
         [ id \in (DOMAIN lastReturned) \cup {frame.agent_id} |->
             IF id = frame.agent_id THEN frame.updated_agent ELSE lastReturned[id] ]
    /\ UNCHANGED << scans, stdout, nreq, acked >>

\* A body without repository_url never reaches the handler: FastAPI answers 422.
ConnectInvalid(body) ==
    /\ running = 0
    /\ ~RepositoryConnectModel(body).valid
    /\ resp' = Respond("connect", body, HTTPException(422, <<"Field required">>))
    /\ UNCHANGED << MOCK_AGENT_FILES, inflight, running, scans, stdout, nreq,
                    acked, applied, lastReturned >>

Connect(body) ==
    /\ running = 0
    /\ nreq < MaxRequests
    /\ RepositoryConnectModel(body).valid
    /\ LET request == RepositoryConnectModel(body)
       IN  /\ scans' = AddTask(scans, request.repository_url, request.branch)
           /\ resp' = Respond("connect", body, connect_repository(request))
    /\ acked' = acked \cup {Len(scans) + 1}
    /\ nreq' = nreq + 1
    /\ UNCHANGED << MOCK_AGENT_FILES, inflight, running, stdout, applied, lastReturned >>

ListConnections ==
    /\ running = 0
    /\ resp' = Respond("listConnections", NoRequest,
                       get_connected_repositories(MOCK_AGENT_FILES))
    /\ UNCHANGED << MOCK_AGENT_FILES, inflight, running, scans, stdout, nreq,
                    acked, applied, lastReturned >>

(***************************************************************************)
(* simulate_repository_scan, run by the event loop after the response.     *)
(***************************************************************************)
\* The task enters its try block and suspends in await asyncio.sleep(2).
ScanStart(n) ==
    /\ running = 0
    /\ n \in 1..Len(scans)
    /\ scans[n].pc = "scheduled"
    /\ scans' = [ scans EXCEPT ![n].pc = "sleeping" ]
    /\ UNCHANGED << MOCK_AGENT_FILES, inflight, running, stdout, resp, nreq,
                    acked, applied, lastReturned >>

\* Variant: a scan that ends well records what it found in the registry.
ScanWakeUpdating(n) ==
    /\ running = 0
    /\ n \in 1..Len(scans)
    /\ scans[n].pc = "sleeping"
    /\ \E failAt \in FailPoints :
         /\ stdout' = stdout \o ScanOutput(scans[n], MOCK_AGENT_FILES, failAt)
         /\ scans' = [ scans EXCEPT ![n].pc = IF failAt = "none" THEN "done" ELSE "failed" ]
         /\ MOCK_AGENT_FILES' =
              IF failAt = "none"
                THEN Append(MOCK_AGENT_FILES,
                            [ SEED_AGENT_FILES[1] EXCEPT !.id = "scanned-agent" ])
                ELSE MOCK_AGENT_FILES
    /\ UNCHANGED << inflight, running, resp, nreq, acked, applied, lastReturned >>

\* The sleep is over: the task prints and ends, without an await in between.
ScanWake(n) ==
    /\ running = 0
    /\ n \in 1..Len(scans)
    /\ scans[n].pc = "sleeping"
    /\ \E failAt \in FailPoints :
         /\ stdout' = stdout \o ScanOutput(scans[n], MOCK_AGENT_FILES, failAt)
         /\ scans' = [ scans EXCEPT ![n].pc = IF failAt = "none" THEN "done" ELSE "failed" ]
    /\ UNCHANGED << MOCK_AGENT_FILES, inflight, running, resp, nreq,
                    acked, applied, lastReturned >>

Next ==
    \/ ListAgents
    \/ \E agent_id \in AgentIds : GetAgent(agent_id)
    \/ \E agent_id \in AgentIds, configuration \in Configurations :
         UpdateNotFound(agent_id, configuration)
    \/ \E agent_id \in AgentIds, configuration \in Configurations :
         UpdateBuild(agent_id, configuration)
    \/ \E frame \in inflight : UpdateStore(frame)
    \/ \E body \in ConnectBodies : ConnectInvalid(body)
    \/ \E body \in ConnectBodies : Connect(body)
    \/ ListConnections
    \/ \E n \in 1..MaxRequests : ScanStart(n)
    \/ \E n \in 1..MaxRequests : ScanWake(n)

Spec == Init /\ [][Next]_vars

\* The event loop runs every ready coroutine: a handler it resumed ends, a
\* scheduled task starts, and a sleep that is over wakes its task.
FairSpec ==
    /\ Init /\ [][Next]_vars
    /\ WF_vars(\E frame \in inflight : UpdateStore(frame))
    /\ \A n \in 1..MaxRequests : WF_vars(ScanStart(n)) /\ WF_vars(ScanWake(n))

(***************************************************************************)
(* Properties.                                                             *)
(***************************************************************************)
IdsOf(files) == [ i \in 1..Len(files) |-> files[i].id ]

HasId(files, id) == \E i \in 1..Len(files) : files[i].id = id

RecordOf(files, id) == files[CHOOSE i \in 1..Len(files) : files[i].id = id]

\* new is old overridden key by key by p, one level deep.
IsShallowMerge(new, old, p) ==
    /\ DOMAIN new = (DOMAIN old) \cup (DOMAIN p)
    /\ \A k \in DOMAIN p : new[k] = p[k]
    /\ \A k \in (DOMAIN old) \ (DOMAIN p) : new[k] = old[k]

\* C1: a PUT for a present id returns and stores the record whose metadata is the
\* one-level merge of the metadata before the call with the configuration: the
\* configuration's keys carry its values whole, the other keys keep theirs, no
\* key is added; an empty configuration leaves the metadata as it was.
C1_UpdateIsShallowMerge ==
    [][ \A frame \in inflight : frame \notin inflight' =>
          LET old == RecordOf(MOCK_AGENT_FILES, frame.agent_id).metadata
              p == frame.configuration
          IN  /\ resp'.op = "update"
              /\ resp'.status = 200
              /\ Len(resp'.body) = 1
              /\ resp'.body[1].id = frame.agent_id
              /\ RecordOf(MOCK_AGENT_FILES', frame.agent_id) = resp'.body[1]
              /\ IsShallowMerge(resp'.body[1].metadata, old, p)
              /\ (DOMAIN p = {} => resp'.body[1].metadata = old) ]_vars

C1_Witness ==
    /\ resp.op = "update"
    /\ resp.status = 200
    /\ applied["docs-agent"] = << [ limits |-> Map([ a |-> "1" ]) ],
                                  [ limits |-> Map([ b |-> "2" ]) ] >>
    /\ resp.body[1].metadata["limits"] = Map([ b |-> "2" ])
    /\ resp.body[1].metadata["provider"] = Str("anthropic")

\* C2: in every reachable state, a GET or PUT for an id that no record has fails
\* with the 404 "Agent file not found", never with a 500.
C2_UnknownIdIsNotFound ==
    /\ \A id \in AgentIds : ~HasId(MOCK_AGENT_FILES, id) =>
         /\ get_agent_file(MOCK_AGENT_FILES, id).kind = "HTTPException"
         /\ get_agent_file(MOCK_AGENT_FILES, id).status_code = 404
    /\ (resp.op \in {"get", "update"} /\ ~HasId(MOCK_AGENT_FILES, resp.request.agent_id)) =>
         /\ resp.status = 404
         /\ resp.body = << [ detail |-> <<"Agent file not found">> ] >>

C2_Witness ==
    /\ resp.op = "update"
    /\ resp.request.agent_id = "missing-id"
    /\ resp.status = 404
    /\ MOCK_AGENT_FILES # SEED_AGENT_FILES

\* C3: the registry always holds the three seeded ids, once each, in seed order,
\* and that is what GET /agents returns.
C3_SeedIdsInOrder ==
    /\ IdsOf(MOCK_AGENT_FILES) = << "docs-agent", "git-committer", "commit-command" >>
    /\ get_agent_files(MOCK_AGENT_FILES).kind = "return"
    /\ IdsOf(get_agent_files(MOCK_AGENT_FILES).value)
         = << "docs-agent", "git-committer", "commit-command" >>
    /\ resp.op = "list" =>
         /\ resp.status = 200
         /\ IdsOf(resp.body) = << "docs-agent", "git-committer", "commit-command" >>

C3_Witness ==
    /\ resp.op = "list"
    /\ applied["git-committer"] # << >>
    /\ Len(scans) = 1
    /\ scans[1].pc = "done"

\* C4: a step changes nothing of the registry but the metadata of the record
\* whose id a PUT answered 200 names, whatever keys the configuration has; a PUT
\* answered 404 leaves the registry as it was.
C4_UpdateTouchesOnlyMetadata ==
    [][ /\ Len(MOCK_AGENT_FILES') = Len(MOCK_AGENT_FILES)
        /\ \A i \in 1..Len(MOCK_AGENT_FILES) :
             LET old == MOCK_AGENT_FILES[i]
                 new == MOCK_AGENT_FILES'[i]
             IN  /\ new.id = old.id
                 /\ new.name = old.name
                 /\ new.path = old.path
                 /\ new.type = old.type
                 /\ new.description = old.description
                 /\ new.content = old.content
                 /\ DOMAIN new = DOMAIN old
                 /\ new.metadata # old.metadata =>
                      /\ resp'.op = "update"
                      /\ resp'.status = 200
                      /\ resp'.request.agent_id = old.id
                      /\ \E frame \in inflight :
                           frame \notin inflight' /\ frame.agent_id = old.id
        /\ (\A frame \in inflight : frame \in inflight') =>
             MOCK_AGENT_FILES' = MOCK_AGENT_FILES ]_vars

C4_Witness ==
    /\ resp.op = "update"
    /\ resp.status = 200
    /\ resp.request.agent_id = "git-committer"
    /\ applied["git-committer"] = << [ id |-> Str("hacked"), type |-> Str("command") ] >>
    /\ RecordOf(MOCK_AGENT_FILES, "git-committer").metadata["id"] = Str("hacked")
    /\ RecordOf(MOCK_AGENT_FILES, "git-committer").type = "subagent"

\* C5: a connect answered 200 carries status "connecting", the url given and the
\* branch given ("main" when none is), and a scan completes only in a step
\* after the one that acknowledged its connect.
C5_AckBeforeCompletion ==
    [][ /\ (resp'.op = "connect" /\ resp'.status = 200) =>
             /\ Len(resp'.body) = 1
             /\ resp'.body[1].status = "connecting"
             /\ resp'.body[1].repository_url = resp'.request["repository_url"]
             /\ resp'.body[1].branch = IF "branch" \in DOMAIN resp'.request
                                         THEN resp'.request["branch"] ELSE "main"
        /\ \A n \in 1..Len(scans') :
             (scans'[n].pc \in {"done", "failed"}
                /\ ~(n <= Len(scans) /\ scans[n].pc \in {"done", "failed"}))
             => n \in acked
        /\ Len(scans') > Len(scans) => stdout' = stdout ]_vars

C5_Witness ==
    /\ resp.op = "connect"
    /\ resp.status = 200
    /\ "branch" \notin DOMAIN resp.request
    /\ resp.body[1].branch = "main"
    /\ scans[1].pc = "done"
    /\ Len(stdout) = 2

\* C6: no step of a connect or of a scan task changes the registry, so GET and
\* PUT answer after it what they would have answered before it.
C6_ScanLeavesRegistry ==
    [][ (scans' # scans \/ stdout' # stdout) =>
          /\ MOCK_AGENT_FILES' = MOCK_AGENT_FILES
          /\ get_agent_files(MOCK_AGENT_FILES') = get_agent_files(MOCK_AGENT_FILES)
          /\ \A id \in AgentIds :
               get_agent_file(MOCK_AGENT_FILES', id) = get_agent_file(MOCK_AGENT_FILES, id)
          /\ inflight' = inflight
          /\ applied' = applied ]_vars

C6_Witness ==
    /\ Len(scans) = 1
    /\ scans[1].pc = "done"
    /\ stdout[2].count = 3
    /\ MOCK_AGENT_FILES # SEED_AGENT_FILES

IsFinished(n) == n <= Len(scans) /\ scans[n].pc \in {"done", "failed"}

HasLine(text, task) ==
    \E i \in 1..Len(stdout) :
        /\ stdout[i].text = text
        /\ stdout[i].repository_url = task.repository_url
        /\ stdout[i].branch = task.branch

C8_OneConnectionCountsAgents ==
    /\ LET out == get_connected_repositories(MOCK_AGENT_FILES)
       IN  /\ out.kind = "return"
           /\ Len(out.value) = 1
           /\ out.value[1].status = "connected"
           /\ out.value[1].agent_count = Len(get_agent_files(MOCK_AGENT_FILES).value)
    /\ resp.op = "listConnections" =>
         /\ resp.status = 200
         /\ Len(resp.body) = 1
         /\ resp.body[1].status = "connected"
         /\ resp.body[1].agent_count = Len(get_agent_files(MOCK_AGENT_FILES).value)

C8_Witness ==
    /\ resp.op = "listConnections"
    /\ resp.body[1].agent_count = 3
    /\ MOCK_AGENT_FILES # SEED_AGENT_FILES
    /\ Len(scans) = 1

Orders(n) == { f \in [1..n -> 1..n] : \A i, j \in 1..n : f[i] = f[j] => i = j }

\* The mapping that is the shallow merge of old with p.
ShallowMergeOf(old, p) ==
    [ k \in (DOMAIN old) \cup (DOMAIN p) |-> IF k \in DOMAIN p THEN p[k] ELSE old[k] ]

RECURSIVE MergeAll(_, _, _, _)
\* base merged with configs[order[k]] for k = from..Len(configs), one after another
MergeAll(base, configs, order, from) ==
    IF from > Len(configs) THEN base
    ELSE MergeAll(ShallowMergeOf(base, configs[order[from]]), configs, order, from + 1)

Serializable ==
    \A id \in SeedIds :
        \E order \in Orders(Len(applied[id])) :
            RecordOf(MOCK_AGENT_FILES, id).metadata
              = MergeAll(RecordOf(SEED_AGENT_FILES, id).metadata, applied[id], order, 1)

\* C9: nothing runs between a PUT's read of a record and its write, and when no
\* PUT is under way each record's metadata is what the answered PUTs on its id
\* give when merged one after another in some order.
C9_NoLostUpdate ==
    [][ /\ Cardinality(inflight') <= 1
        /\ running # 0 =>
             \E frame \in inflight :
                 /\ frame.rid = running
                 /\ inflight' = inflight \ {frame}
                 /\ resp'.op = "update"
                 /\ resp'.request.agent_id = frame.agent_id
        /\ inflight' = {} => Serializable' ]_vars

C9_Witness ==
    /\ inflight = {}
    /\ applied["docs-agent"] = << [ provider |-> Str("azure") ], [ newKey |-> Str("v") ] >>
    /\ RecordOf(MOCK_AGENT_FILES, "docs-agent").metadata["provider"] = Str("azure")
    /\ RecordOf(MOCK_AGENT_FILES, "docs-agent").metadata["newKey"] = Str("v")

\* C10: in every state after a PUT on an id was answered 200 with record r, GET
\* for that id returns r and GET /agents lists r for it, until the next such
\* PUT; GET for a present id returns a record with that id.
C10_ReadsSeeLastWrite ==
    /\ \A id \in DOMAIN lastReturned :
         /\ get_agent_file(MOCK_AGENT_FILES, id).kind = "return"
         /\ get_agent_file(MOCK_AGENT_FILES, id).value = << lastReturned[id] >>
         /\ RecordOf(get_agent_files(MOCK_AGENT_FILES).value, id) = lastReturned[id]
    /\ \A id \in AgentIds : HasId(MOCK_AGENT_FILES, id) =>
         /\ get_agent_file(MOCK_AGENT_FILES, id).kind = "return"
         /\ get_agent_file(MOCK_AGENT_FILES, id).value[1].id = id

C10_Witness ==
    /\ resp.op = "get"
    /\ resp.status = 200
    /\ resp.request.agent_id \in DOMAIN lastReturned
    /\ resp.body[1] = lastReturned[resp.request.agent_id]
    /\ resp.body[1].metadata # RecordOf(SEED_AGENT_FILES, resp.request.agent_id).metadata
    /\ Len(applied[resp.request.agent_id]) = 2

====
